---- MODULE Spec2Model ----
(***************************************************************************)
(* Model of poster_designer.py: the greedy line wrapper                    *)
(* (_split_text_to_lines), the section flower (_draw_section) and the      *)
(* column/page loop of build_poster.                                       *)
(*                                                                         *)
(* Units.  Vertical positions and box sizes are in points, as in the       *)
(* source.  Text widths are compared in thousandths of a point: reportlab  *)
(* measures a Helvetica string as (sum of glyph widths) * size / 1000, so  *)
(* stringWidth(t) <= max_width  is  GlyphSum(t) * size <= 1000 * max_width.*)
(* A text is a sequence of one-character strings.                          *)
(***************************************************************************)
EXTENDS Integers, Sequences, FiniteSets, TLC

VARIABLES
    \* ---- build_poster ----
    has_title,  \* the content description has the key "title"
    geom,       \* the page geometry read from the content description
    sections,   \* content.sections
    footer,     \* content.footer (TRUE: a non-empty footer string)
    pc,         \* position in build_poster
    sec_i,      \* index (1-based) of the section the loop is at
    cur_col,    \* cur_col
    x,          \* x
    y,          \* y
    y_after,    \* y_after
    page,       \* number of showPage calls so far (0-based page index)
    log,        \* the draw commands issued so far, in order
    calls,      \* the _draw_section calls made so far, in order
    \* ---- _split_text_to_lines on its own ----
    wpc,        \* position of the wrapper run
    text,       \* text
    max_width,  \* max_width, in thousandths of a point
    lines,      \* the returned lines
    \* ---- the title loop of _draw_title_band on its own ----
    tpc,              \* position of the title run
    title,            \* content.title
    max_title_width,  \* max_title_width, in points
    title_font_size,  \* font_size
    shrinks,          \* the decrements of font_size made so far
    \* ---- the image scaling of _draw_section and _draw_title_band ----
    fpc,          \* position of the scaling run
    fit_image,    \* the image measured (iw, ih)
    fit_area_w,   \* area_w
    section_fit,  \* (draw_w, draw_h) as a section image
    logo_fit,     \* (draw_w, draw_h) as a logo
    \* ---- the image loop of _draw_section, the logo loop of _draw_title_band ----
    ipc,             \* position of the image run
    image_list,      \* sec.images
    logo_list,       \* content.logos
    image_y,         \* the cursor y at the image loop
    image_area_w,    \* area_w
    section_result,  \* what the image loop returned and drew
    logo_result      \* what the logo loop drew and the cursor x it left

poster_vars == <<has_title, geom, sections, footer, pc, sec_i, cur_col, x, y,
                 y_after, page, log, calls>>

wrap_vars == <<wpc, text, max_width, lines>>

title_vars == <<tpc, title, max_title_width, title_font_size, shrinks>>

fit_vars == <<fpc, fit_image, fit_area_w, section_fit, logo_fit>>

images_vars == <<ipc, image_list, logo_list, image_y, image_area_w,
                 section_result, logo_result>>

vars == <<poster_vars, wrap_vars, title_vars, fit_vars, images_vars>>

-----------------------------------------------------------------------------
(* Bounds of the model *)

MaxTextLen == 5
MaxSections == 3
MaxColumns == 3
MaxConfigSections == 2

-----------------------------------------------------------------------------
(* Layout defaults *)

section_title_size == 44
body_size == 28

\* line_height = L.body_size * 1.25
line_height == (body_size * 5) \div 4

\* line_height * 0.6, the step of an empty line
gap_height == (line_height * 3) \div 5

\* L.bullet_indent_mm * mm = 8 * 72 / 25.4 = 22.677165... points; a width in
\* thousandths of a point is an integer, so  w <= 1000 * (area_w - indent)
\* is  w <= 1000 * area_w - 22678.
bullet_indent_milli == 22678

-----------------------------------------------------------------------------
(* Text: str.split("\n"), str.strip(), str.split(), " ".join *)

Alphabet == {"i", "W", " ", "\n"}

RECURSIVE TextsOfLen(_)
TextsOfLen(n) ==
    IF n = 0 THEN {<<>>}
    ELSE {Append(t, ch) : t \in TextsOfLen(n - 1), ch \in Alphabet}

Texts == UNION {TextsOfLen(n) : n \in 0..MaxTextLen}

\* Helvetica glyph widths (per 1000 units of font size)
GlyphWidth(ch) ==
    CASE ch = "a" -> 556
      [] ch = "i" -> 222
      [] ch = "W" -> 944
      [] ch = " " -> 278
      [] OTHER -> 0

RECURSIVE GlyphSum(_)
GlyphSum(s) == IF s = <<>> THEN 0 ELSE GlyphWidth(Head(s)) + GlyphSum(Tail(s))

\* c.stringWidth(s, font_name, font_size), in thousandths of a point
stringWidth(s, font_size) == GlyphSum(s) * font_size

\* text.split("\n")
RECURSIVE SplitNewline(_)
SplitNewline(s) ==
    IF \A i \in 1..Len(s) : s[i] # "\n" THEN <<s>>
    ELSE LET i == CHOOSE k \in 1..Len(s) :
                      s[k] = "\n" /\ \A j \in 1..(k - 1) : s[j] # "\n"
         IN  <<SubSeq(s, 1, i - 1)>> \o SplitNewline(SubSeq(s, i + 1, Len(s)))

IsSpace(ch) == ch \in {" ", "\n"}

\* p.strip()
RECURSIVE Strip(_)
Strip(s) ==
    IF s = <<>> THEN s
    ELSE IF IsSpace(Head(s)) THEN Strip(Tail(s))
    ELSE IF IsSpace(s[Len(s)]) THEN Strip(SubSeq(s, 1, Len(s) - 1))
    ELSE s

\* p.split(): the maximal runs of non-whitespace characters, in order
RECURSIVE SplitWords(_)
SplitWords(s) ==
    IF s = <<>> THEN <<>>
    ELSE IF IsSpace(Head(s)) THEN SplitWords(Tail(s))
    ELSE LET n == IF \E k \in 1..Len(s) : IsSpace(s[k])
                  THEN (CHOOSE k \in 1..Len(s) :
                            IsSpace(s[k]) /\ \A j \in 1..(k - 1) : ~IsSpace(s[j])) - 1
                  ELSE Len(s)
         IN  <<SubSeq(s, 1, n)>> \o SplitWords(SubSeq(s, n + 1, Len(s)))

\* " ".join(ws)
RECURSIVE Join(_)
Join(ws) ==
    IF ws = <<>> THEN <<>>
    ELSE IF Len(ws) = 1 THEN ws[1]
    ELSE ws[1] \o <<" ">> \o Join(Tail(ws))

-----------------------------------------------------------------------------
(* _split_text_to_lines *)

\* a wrapper that measures only the new word instead of the line with the word
FitsLineWordOnly(cur, w, font_size, maxw) ==
    stringWidth(w, font_size) <= maxw

\* the test of line 95
FitsLine(cur, w, font_size, maxw) ==
    stringWidth(Join(Append(cur, w)), font_size) <= maxw

\* the word loop, lines 93-99: the lines closed so far and the open line cur
RECURSIVE WordLoop(_, _, _, _, _)
WordLoop(words, cur, out, font_size, maxw) ==
    IF words = <<>> THEN [lines |-> out, cur |-> cur]
    ELSE IF FitsLine(cur, Head(words), font_size, maxw)
         THEN WordLoop(Tail(words), Append(cur, Head(words)), out, font_size, maxw)
         ELSE WordLoop(Tail(words), <<Head(words)>>, Append(out, Join(cur)),
                       font_size, maxw)

\* a paragraph loop that emits nothing for an empty paragraph
WrapParagraphDropEmpty(p, font_size, maxw) ==
    LET r == WordLoop(SplitWords(p), <<>>, <<>>, font_size, maxw)
    IN  IF r.cur # <<>> THEN Append(r.lines, Join(r.cur)) ELSE r.lines

\* one iteration of the paragraph loop, lines 88-101, for the stripped paragraph p
WrapParagraph(p, font_size, maxw) ==
    IF p = <<>> THEN <<<<>>>>
    ELSE LET r == WordLoop(SplitWords(p), <<>>, <<>>, font_size, maxw)
         IN  IF r.cur # <<>> THEN Append(r.lines, Join(r.cur)) ELSE r.lines

\* paragraphs = [p.strip() for p in text.split("\n")]
Paragraphs(t) ==
    LET ps == SplitNewline(t) IN [i \in 1..Len(ps) |-> Strip(ps[i])]

RECURSIVE ConcatParagraphs(_, _, _)
ConcatParagraphs(ps, font_size, maxw) ==
    IF ps = <<>> THEN <<>>
    ELSE WrapParagraph(Head(ps), font_size, maxw)
         \o ConcatParagraphs(Tail(ps), font_size, maxw)

split_text_to_lines(t, font_size, maxw) ==
    ConcatParagraphs(Paragraphs(t), font_size, maxw)

-----------------------------------------------------------------------------
(* _draw_section *)

\* the overflow test of lines 118, 131, 138 and 145
BelowAreaLate(yy, area_y) == yy + line_height < area_y

BelowArea(yy, area_y) == yy < area_y

Draw(kind, yy) == [kind |-> kind, y |-> yy]

\* A partial result of _draw_section: the cursor, the draw commands issued and
\* ret, the source line of the return statement taken (0: none yet).
Going(yy, draws) == [y |-> yy, draws |-> draws, ret |-> 0]
Returned(yy, draws, line) == [y |-> yy, draws |-> draws, ret |-> line]

\* a body loop that skips a line below the area (continue) instead of returning
RECURSIVE DrawBodyContinue(_, _, _, _)
DrawBodyContinue(ls, yy, draws, area_y) ==
    IF ls = <<>> THEN [y |-> yy, draws |-> draws, ret |-> 0]
    ELSE IF yy < area_y THEN DrawBodyContinue(Tail(ls), yy, draws, area_y)
    ELSE IF Head(ls) = <<>>
         THEN DrawBodyContinue(Tail(ls), yy - gap_height, draws, area_y)
         ELSE DrawBodyContinue(Tail(ls), yy - line_height,
                               Append(draws, [kind |-> "body", y |-> yy]), area_y)

\* the body loop, lines 117-124
RECURSIVE DrawBody(_, _, _, _)
DrawBody(ls, yy, draws, area_y) ==
    IF ls = <<>> THEN Going(yy, draws)
    ELSE IF BelowArea(yy, area_y) THEN Returned(yy, draws, 119)
    ELSE IF Head(ls) = <<>>
         THEN DrawBody(Tail(ls), yy - gap_height, draws, area_y)
         ELSE DrawBody(Tail(ls), yy - line_height,
                       Append(draws, Draw("body", yy)), area_y)

\* the continuation lines of one bullet, lines 137-141
RECURSIVE DrawWrapped(_, _, _, _)
DrawWrapped(wls, yy, draws, area_y) ==
    IF wls = <<>> THEN Going(yy, draws)
    ELSE IF BelowArea(yy, area_y) THEN Returned(yy, draws, 139)
    ELSE DrawWrapped(Tail(wls), yy - line_height,
                     Append(draws, Draw("bullet", yy)), area_y)

\* the bullet loop, lines 130-141; area_w in points
RECURSIVE DrawBullets(_, _, _, _, _)
DrawBullets(bs, yy, draws, area_y, area_w) ==
    IF bs = <<>> THEN Going(yy, draws)
    ELSE IF BelowArea(yy, area_y) THEN Returned(yy, draws, 132)
    ELSE LET wrapped == split_text_to_lines(Head(bs), body_size,
                                            1000 * area_w - bullet_indent_milli)
             first == draws \o <<Draw("marker", yy), Draw("bullet", yy)>>
             r == DrawWrapped(Tail(wrapped), yy - line_height, first, area_y)
         IN  IF r.ret # 0 THEN r
             ELSE DrawBullets(Tail(bs), r.y, r.draws, area_y, area_w)

\* An image: ok (the path is given, exists and can be read), its intrinsic
\* size, and whether it has a caption.
\* lines 153-156: both divisions are defined
Measurable(img) == img.ok /\ img.iw # 0 /\ img.ih # 0

\* draw_h = ih * min(max_w / iw, 4000 / ih), for an image whose scaled height
\* is a whole number of points
draw_h(img, max_w) ==
    IF max_w * img.ih <= 4000 * img.iw
    THEN (img.ih * max_w) \div img.iw
    ELSE 4000

\* an image loop that ends (break) at the first image it cannot measure
RECURSIVE DrawImagesStopAtBad(_, _, _, _, _)
DrawImagesStopAtBad(imgs, yy, draws, area_y, area_w) ==
    IF imgs = <<>> THEN Going(yy, draws)
    ELSE IF BelowArea(yy, area_y) THEN Returned(yy, draws, 146)
    ELSE IF ~Measurable(Head(imgs)) THEN Going(yy, draws)
    ELSE LET dh == draw_h(Head(imgs), area_w) IN
         IF yy - dh - 24 < area_y THEN Returned(yy, draws, 158)
         ELSE LET y1 == yy - (dh + 6)
                  d1 == Append(draws, Draw("image", yy - dh))
              IN  IF Head(imgs).caption
                  THEN DrawImagesStopAtBad(Tail(imgs), y1 - 18,
                                           Append(d1, Draw("caption", y1)), area_y, area_w)
                  ELSE DrawImagesStopAtBad(Tail(imgs), y1, d1, area_y, area_w)

\* the image loop, lines 144-166
RECURSIVE DrawImages(_, _, _, _, _)
DrawImages(imgs, yy, draws, area_y, area_w) ==
    IF imgs = <<>> THEN Going(yy, draws)
    ELSE IF BelowArea(yy, area_y) THEN Returned(yy, draws, 146)
    ELSE IF ~Measurable(Head(imgs))
         THEN DrawImages(Tail(imgs), yy, draws, area_y, area_w)
    ELSE LET dh == draw_h(Head(imgs), area_w) IN
         IF yy - dh - 24 < area_y THEN Returned(yy, draws, 158)
         ELSE LET y1 == yy - (dh + 6)
                  d1 == Append(draws, Draw("image", yy - dh))
              IN  IF Head(imgs).caption
                  THEN DrawImages(Tail(imgs), y1 - 18,
                                  Append(d1, Draw("caption", y1)), area_y, area_w)
                  ELSE DrawImages(Tail(imgs), y1, d1, area_y, area_w)

\* _draw_section(c, sec, area_x, area_y, area_w, start_y, L)
draw_section(sec, area_y, area_w, start_y) ==
    LET y0 == start_y - (section_title_size + 8)
        d0 == <<Draw("title", start_y)>>
        body_lines == split_text_to_lines(sec.body, body_size, 1000 * area_w)
        b == DrawBody(body_lines, y0, d0, area_y)
    IN  IF b.ret # 0 THEN b
        ELSE LET u == DrawBullets(sec.bullets, b.y, b.draws, area_y, area_w)
             IN  IF u.ret # 0 THEN u
                 ELSE LET m == DrawImages(sec.images, u.y, u.draws, area_y, area_w)
                      IN  IF m.ret # 0 THEN m
                          ELSE Returned(m.y, m.draws, 168)

-----------------------------------------------------------------------------
(* build_poster: geometry *)

left(g) == g.margin
right(g) == g.W - g.margin
bottom(g) == g.margin
top(g) == g.H - g.titleband - g.margin
total_width(g) == right(g) - left(g)

\* col_w, for geometries in which the division is exact
col_w(g) == (total_width(g) - (g.columns - 1) * g.gutter) \div g.columns

\* x = left + cur_col * (col_w + gutter)
column_x(g, col) == left(g) + col * (col_w(g) + g.gutter)

-----------------------------------------------------------------------------
(* build_poster: the content descriptions explored *)

Image(ok, iw, ih, caption) == [ok |-> ok, iw |-> iw, ih |-> ih, caption |-> caption]

Section(body, bullets, images) == [body |-> body, bullets |-> bullets, images |-> images]

\* one body line
ShortSection == Section(<<"a">>, <<>>, <<>>)

\* an empty body and two bullets, the first of three words
BulletSection ==
    Section(<<>>, << <<"a", " ", "a", " ", "W">>, <<"a">> >>, <<>>)

\* five paragraphs, the second empty
LongSection ==
    Section(<<"a", "\n", "\n", "a", " ", "a", "\n", "W", "\n", "a", "\n", "a">>,
            <<>>, <<>>)

\* one body line and a wide image with a caption
ImageSection == Section(<<"a">>, <<>>, <<Image(TRUE, 200, 100, TRUE)>>)

\* an unreadable image, an image of height 0 and a tall image
TallImageSection ==
    Section(<<>>, <<>>,
            <<Image(FALSE, 100, 100, FALSE), Image(TRUE, 100, 0, FALSE),
              Image(TRUE, 100, 200, FALSE)>>)

SectionKinds ==
    {ShortSection, BulletSection, LongSection, ImageSection, TallImageSection}

RECURSIVE SectionLists(_)
SectionLists(n) ==
    IF n = 0 THEN {<<>>}
    ELSE LET shorter == SectionLists(n - 1)
         IN  shorter \cup {Append(l, k) : l \in {m \in shorter : Len(m) = n - 1},
                                          k \in SectionKinds}

\* pages 292 wide and 220 or 380 high, in points: columns of height 140 or 300
\* and of width 252, 120, 76 or 54
Geometries ==
    {[columns |-> c, W |-> 292, H |-> h, margin |-> 20, titleband |-> 40,
      gutter |-> 12] : c \in 1..MaxColumns, h \in {220, 380}}

-----------------------------------------------------------------------------
(* build_poster: the section loop *)

\* line 218
NotFitNoSlack(ya, area_y) == ya < area_y

NotFit(ya, area_y) == ya < area_y + 60

\* line 220
OutOfColumnsLate(col, columns) == col > columns

OutOfColumnsEarly(col, columns) == col >= columns - 1

OutOfColumns(col, columns) == col >= columns

Cmd(kind, sec, col, pg, yy) ==
    [kind |-> kind, sec |-> sec, col |-> col, page |-> pg, y |-> yy]

\* the draw commands of one _draw_section call, as issued for section sec
Issued(draws, sec, col, pg) ==
    [i \in 1..Len(draws) |-> Cmd(draws[i].kind, sec, col, pg, draws[i].y)]

\* a page painted title band first
PaintPageBandFirst(pg) == <<Cmd("titleband", 0, 0, pg, 0), Cmd("background", 0, 0, pg, 0)>>

\* lines 195-199 and 223-225: the background, then the title band
PaintPage(pg) == <<Cmd("background", 0, 0, pg, 0), Cmd("titleband", 0, 0, pg, 0)>>

Call(sec, col, pg, start_y, r) ==
    [sec |-> sec, col |-> col, page |-> pg, start_y |-> start_y,
     y_after |-> r.y, ret |-> r.ret]

TitleOff ==
    /\ tpc = "off" /\ title = <<>> /\ max_title_width = 0
    /\ title_font_size = 0 /\ shrinks = 0

FitOff ==
    /\ fpc = "off" /\ fit_image = <<>> /\ fit_area_w = 0
    /\ section_fit = <<>> /\ logo_fit = <<>>

ImagesOff ==
    /\ ipc = "off" /\ image_list = <<>> /\ logo_list = <<>> /\ image_y = 0
    /\ image_area_w = 0 /\ section_result = <<>> /\ logo_result = <<>>

WrapOff == wpc = "off" /\ text = <<>> /\ max_width = 0 /\ lines = <<>>

Init ==
    /\ WrapOff /\ TitleOff /\ FitOff /\ ImagesOff
    /\ has_title = TRUE
    /\ geom \in Geometries
    /\ sections \in SectionLists(MaxSections)
    /\ footer \in BOOLEAN
    /\ pc = "begin"
    /\ sec_i = 0
    /\ cur_col = 0
    /\ x = 0
    /\ y = 0
    /\ y_after = 0
    /\ page = 0
    /\ log = <<>>
    /\ calls = <<>>

\* the section the for loop of line 216 takes after section i
LoopAt(i) == IF i <= Len(sections) THEN "flow" ELSE "footer"

\* lines 193-214: first page, geometry, cursor at the top of column 0
Begin ==
    /\ pc = "begin"
    /\ has_title
    /\ geom.columns # 0
    /\ log' = PaintPage(0)
    /\ cur_col' = 0
    /\ x' = left(geom)
    /\ y' = top(geom)
    /\ sec_i' = 1
    /\ pc' = LoopAt(1)
    /\ UNCHANGED <<has_title, geom, sections, footer, y_after, page, calls>>
    /\ UNCHANGED <<wrap_vars, title_vars, fit_vars, images_vars>>

\* line 217
FlowSection ==
    /\ pc = "flow"
    /\ LET r == draw_section(sections[sec_i], bottom(geom), col_w(geom), y)
       IN  /\ y_after' = r.y
           /\ log' = log \o Issued(r.draws, sec_i, cur_col, page)
           /\ calls' = Append(calls, Call(sec_i, cur_col, page, y, r))
    /\ pc' = "check"
    /\ UNCHANGED <<has_title, geom, sections, footer, sec_i, cur_col, x, y, page>>
    /\ UNCHANGED <<wrap_vars, title_vars, fit_vars, images_vars>>

\* line 218, condition false
Fitted ==
    /\ pc = "check"
    /\ ~NotFit(y_after, bottom(geom))
    /\ pc' = "space"
    /\ UNCHANGED <<has_title, geom, sections, footer, sec_i, cur_col, x, y, y_after, page,
                   log, calls>>
    /\ UNCHANGED <<wrap_vars, title_vars, fit_vars, images_vars>>

\* lines 218-220 and 227-228: the next column of the same page
AdvanceColumn ==
    /\ pc = "check"
    /\ NotFit(y_after, bottom(geom))
    /\ ~OutOfColumns(cur_col + 1, geom.columns)
    /\ cur_col' = cur_col + 1
    /\ x' = column_x(geom, cur_col + 1)
    /\ y' = top(geom)
    /\ pc' = "reflow"
    /\ UNCHANGED <<has_title, geom, sections, footer, sec_i, y_after, page, log, calls>>
    /\ UNCHANGED <<wrap_vars, title_vars, fit_vars, images_vars>>

\* lines 218-228: out of columns, a new page and column 0
NewPage ==
    /\ pc = "check"
    /\ NotFit(y_after, bottom(geom))
    /\ OutOfColumns(cur_col + 1, geom.columns)
    /\ log' = log \o <<Cmd("showPage", 0, 0, page, 0)>> \o PaintPage(page + 1)
    /\ page' = page + 1
    /\ cur_col' = 0
    /\ x' = column_x(geom, 0)
    /\ y' = top(geom)
    /\ pc' = "reflow"
    /\ UNCHANGED <<has_title, geom, sections, footer, sec_i, y_after, calls>>
    /\ UNCHANGED <<wrap_vars, title_vars, fit_vars, images_vars>>

\* line 218 as a while loop: the second flow is tested for fit again
ReflowSectionRetested ==
    /\ pc = "reflow"
    /\ LET r == draw_section(sections[sec_i], bottom(geom), col_w(geom), y)
       IN  /\ y_after' = r.y
           /\ log' = log \o Issued(r.draws, sec_i, cur_col, page)
           /\ calls' = Append(calls, Call(sec_i, cur_col, page, y, r))
    /\ pc' = "check"
    /\ UNCHANGED <<has_title, geom, sections, footer, sec_i, cur_col, x, y, page>>
    /\ UNCHANGED <<wrap_vars, title_vars, fit_vars, images_vars>>

\* line 229
ReflowSection ==
    /\ pc = "reflow"
    /\ LET r == draw_section(sections[sec_i], bottom(geom), col_w(geom), y)
       IN  /\ y_after' = r.y
           /\ log' = log \o Issued(r.draws, sec_i, cur_col, page)
           /\ calls' = Append(calls, Call(sec_i, cur_col, page, y, r))
    /\ pc' = "space"
    /\ UNCHANGED <<has_title, geom, sections, footer, sec_i, cur_col, x, y, page>>
    /\ UNCHANGED <<wrap_vars, title_vars, fit_vars, images_vars>>

\* the successor of section i in the for loop
NextIndexSkip(i) == i + 2

NextIndex(i) == i + 1

\* line 230, and the for loop taking the next section
Spacing ==
    /\ pc = "space"
    /\ y' = y_after - 18
    /\ sec_i' = NextIndex(sec_i)
    /\ pc' = LoopAt(NextIndex(sec_i))
    /\ UNCHANGED <<has_title, geom, sections, footer, cur_col, x, y_after, page, log, calls>>
    /\ UNCHANGED <<wrap_vars, title_vars, fit_vars, images_vars>>

\* a footer drawn whether or not the content has one
FooterUnconditional ==
    /\ pc = "footer"
    /\ log' = Append(log, Cmd("footer", 0, 0, page, bottom(geom) - 10))
    /\ pc' = "done"
    /\ UNCHANGED <<has_title, geom, sections, footer, sec_i, cur_col, x, y, y_after, page, calls>>
    /\ UNCHANGED <<wrap_vars, title_vars, fit_vars, images_vars>>

\* lines 233-238
Footer ==
    /\ pc = "footer"
    /\ log' = IF footer THEN Append(log, Cmd("footer", 0, 0, page, bottom(geom) - 10))
              ELSE log
    /\ pc' = "done"
    /\ UNCHANGED <<has_title, geom, sections, footer, sec_i, cur_col, x, y, y_after, page, calls>>
    /\ UNCHANGED <<wrap_vars, title_vars, fit_vars, images_vars>>

Next ==
    \/ Begin
    \/ FlowSection
    \/ Fitted
    \/ AdvanceColumn
    \/ NewPage
    \/ ReflowSection
    \/ Spacing
    \/ Footer

Spec == Init /\ [][Next]_vars

-----------------------------------------------------------------------------
(* build_poster on content descriptions with configuration errors *)

\* column counts from 0, and pages 28, 40 and 292 wide: a total width of -12
\* (column width -12), of 0 (column width 0 or less) and of 252
ConfigGeometries ==
    {[columns |-> c, W |-> w, H |-> h, margin |-> 20, titleband |-> 40,
      gutter |-> 12] : c \in 0..MaxColumns, w \in {28, 40, 292}, h \in {220, 380}}

InitConfig ==
    /\ WrapOff /\ TitleOff /\ FitOff /\ ImagesOff
    /\ has_title \in BOOLEAN
    /\ geom \in ConfigGeometries
    /\ sections \in SectionLists(MaxConfigSections)
    /\ footer = FALSE
    /\ pc = "begin"
    /\ sec_i = 0
    /\ cur_col = 0
    /\ x = 0
    /\ y = 0
    /\ y_after = 0
    /\ page = 0
    /\ log = <<>>
    /\ calls = <<>>

\* line 179: data["title"] raises KeyError, before the canvas is created
MissingTitle ==
    /\ pc = "begin"
    /\ ~has_title
    /\ pc' = "error"
    /\ UNCHANGED <<has_title, geom, sections, footer, sec_i, cur_col, x, y, y_after,
                   page, log, calls>>
    /\ UNCHANGED <<wrap_vars, title_vars, fit_vars, images_vars>>

\* lines 193-208 with L.columns = 0: the first page is painted, then the
\* division of line 208 raises ZeroDivisionError
ZeroColumns ==
    /\ pc = "begin"
    /\ has_title
    /\ geom.columns = 0
    /\ log' = PaintPage(0)
    /\ pc' = "error"
    /\ UNCHANGED <<has_title, geom, sections, footer, sec_i, cur_col, x, y, y_after,
                   page, calls>>
    /\ UNCHANGED <<wrap_vars, title_vars, fit_vars, images_vars>>

NextConfig ==
    \/ MissingTitle
    \/ ZeroColumns
    \/ Next

SpecConfig == InitConfig /\ [][NextConfig]_vars

-----------------------------------------------------------------------------
(* The wrapper run on its own: any text, any width *)

\* widths around the sizes of "i" (6216), "i i" (20216), "W" (26432) and
\* "i W" (40432), none of them exactly the size of a string: there the
\* rounding of the floating-point product decides line 95
MaxWidths == {-1, 0, 6000, 7000, 21000, 27000, 41000}

InitPosterOff ==
    /\ has_title = TRUE
    /\ geom = [columns |-> 1, W |-> 0, H |-> 0, margin |-> 0, titleband |-> 0,
               gutter |-> 0]
    /\ sections = <<>>
    /\ footer = FALSE
    /\ pc = "off"
    /\ sec_i = 0
    /\ cur_col = 0
    /\ x = 0
    /\ y = 0
    /\ y_after = 0
    /\ page = 0
    /\ log = <<>>
    /\ calls = <<>>

InitWrap ==
    /\ InitPosterOff /\ TitleOff /\ FitOff /\ ImagesOff
    /\ wpc = "call"
    /\ text \in Texts
    /\ max_width \in MaxWidths
    /\ lines = <<>>

Wrap ==
    /\ wpc = "call"
    /\ lines' = split_text_to_lines(text, body_size, max_width)
    /\ wpc' = "done"
    /\ UNCHANGED <<text, max_width>>
    /\ UNCHANGED <<poster_vars, title_vars, fit_vars, images_vars>>

NextWrap == Wrap

SpecWrap == InitWrap /\ [][NextWrap]_vars

-----------------------------------------------------------------------------
(* The title shrink loop of _draw_title_band, lines 48-52 *)

MaxTitleLen == 4
start_font_size == 72
min_font_size == 36
font_step == 2

TitleAlphabet == {"i", "W"}

Titles == UNION {[1..n -> TitleAlphabet] : n \in 0..MaxTitleLen}

\* usable title widths in thousandths of a point; odd, so that no title
\* measures exactly the usable width
TitleWidths == {-1, 1, 20001, 40001, 60001, 100001, 150001, 200001, 280001}

\* Helvetica-Bold advance widths, in 1/1000 of the font size
BoldGlyphWidth(ch) ==
    CASE ch = "a" -> 556
      [] ch = "i" -> 278
      [] ch = "W" -> 944
      [] ch = " " -> 278
      [] OTHER -> 0

RECURSIVE BoldGlyphSum(_)
BoldGlyphSum(s) ==
    IF s = <<>> THEN 0 ELSE BoldGlyphWidth(Head(s)) + BoldGlyphSum(Tail(s))

\* c.stringWidth(content.title, "Helvetica-Bold", font_size), in thousandths
titleWidth(s, font_size) == BoldGlyphSum(s) * font_size

\* a loop condition that still holds at the minimum size
KeepShrinkingAtMin(s, font_size, maxw) ==
    titleWidth(s, font_size) > maxw /\ font_size >= min_font_size

\* the while condition of line 50
KeepShrinking(s, font_size, maxw) ==
    titleWidth(s, font_size) > maxw /\ font_size > min_font_size

InitTitle ==
    /\ InitPosterOff /\ WrapOff /\ FitOff /\ ImagesOff
    /\ tpc = "loop"
    /\ title \in Titles
    /\ max_title_width \in TitleWidths
    /\ title_font_size = start_font_size
    /\ shrinks = 0

\* one iteration of the loop body, line 51
Shrink ==
    /\ tpc = "loop"
    /\ KeepShrinking(title, title_font_size, max_title_width)
    /\ title_font_size' = title_font_size - font_step
    /\ shrinks' = shrinks + 1
    /\ UNCHANGED <<tpc, title, max_title_width>>
    /\ UNCHANGED <<poster_vars, wrap_vars, fit_vars, images_vars>>

\* the loop exit: c.setFont("Helvetica-Bold", font_size), line 52
SetTitleFont ==
    /\ tpc = "loop"
    /\ ~KeepShrinking(title, title_font_size, max_title_width)
    /\ tpc' = "done"
    /\ UNCHANGED <<title, max_title_width, title_font_size, shrinks>>
    /\ UNCHANGED <<poster_vars, wrap_vars, fit_vars, images_vars>>

NextTitle ==
    \/ Shrink
    \/ SetTitleFont

SpecTitle == InitTitle /\ [][NextTitle]_vars

-----------------------------------------------------------------------------
(* The image and logo fitting arithmetic, lines 153-156 and 74-76.

   Python floats are IEEE 754 binary64 numbers.  A positive one is modelled
   as [m |-> its 53 significand bits, the most significant (a 1) first,
       e |-> the exponent of the last bit], its value being m * 2^e; every
   operation rounds its exact result to the nearest such number, ties to
   the even significand. *)

significand_bits == 53

RECURSIVE Pow2(_)
Pow2(k) == IF k = 0 THEN 1 ELSE 2 * Pow2(k - 1)

\* the bits of an int n >= 0, without leading zeros
RECURSIVE IntBits(_)
IntBits(n) == IF n = 0 THEN <<>> ELSE IntBits(n \div 2) \o <<n % 2>>

\* bs without its leading zeros
StripZeros(bs) ==
    IF \A i \in 1..Len(bs) : bs[i] = 0 THEN <<>>
    ELSE SubSeq(bs, CHOOSE i \in 1..Len(bs) :
                        bs[i] = 1 /\ \A j \in 1..(i - 1) : bs[j] = 0, Len(bs))

\* bits to base-16 digits and back, most significant first
HexOf(bs) ==
    LET pad == (4 - (Len(bs) % 4)) % 4
        at(i) == IF i <= pad THEN 0 ELSE bs[i - pad]
    IN  [k \in 1..((Len(bs) + pad) \div 4) |->
            8 * at(4 * k - 3) + 4 * at(4 * k - 2) + 2 * at(4 * k - 1) + at(4 * k)]

BitsOf(ds) ==
    StripZeros([i \in 1..(4 * Len(ds)) |->
                   (ds[(i + 3) \div 4] \div Pow2(3 - ((i - 1) % 4))) % 2])

\* bs + 1 on the same number of bits (all ones wrap to all zeros)
Increment(bs) ==
    [i \in 1..Len(bs) |->
        IF \A j \in (i + 1)..Len(bs) : bs[j] = 1 THEN 1 - bs[i] ELSE bs[i]]

\* round to nearest, ties to even: bs are the kept bits, guard the first
\* dropped bit, sticky whether any later dropped bit is set
RoundNearestEven(bs, guard, sticky, ex) ==
    IF guard /\ (sticky \/ bs[Len(bs)] = 1)
    THEN IF \A i \in 1..Len(bs) : bs[i] = 1
         THEN [m |-> [i \in 1..Len(bs) |-> IF i = 1 THEN 1 ELSE 0], e |-> ex + 1]
         ELSE [m |-> Increment(bs), e |-> ex]
    ELSE [m |-> bs, e |-> ex]

\* the float nearest to bs * 2^ex, bs having a leading 1
FromBits(bs, ex) ==
    IF Len(bs) <= significand_bits
    THEN [m |-> bs \o [i \in 1..(significand_bits - Len(bs)) |-> 0],
          e |-> ex - (significand_bits - Len(bs))]
    ELSE RoundNearestEven(SubSeq(bs, 1, significand_bits),
                          bs[significand_bits + 1] = 1,
                          \E i \in (significand_bits + 2)..Len(bs) : bs[i] = 1,
                          ex + (Len(bs) - significand_bits))

\* float(n) for an int n > 0
FromInt(n) == FromBits(IntBits(n), 0)

\* the largest k with d * 2^k <= n, for n >= d
RECURSIVE ShiftsBelow(_, _)
ShiftsBelow(d, n) == IF 2 * d > n THEN 0 ELSE 1 + ShiftsBelow(2 * d, n)

\* the smallest k with n * 2^k >= d
RECURSIVE ShiftsUpTo(_, _)
ShiftsUpTo(n, d) == IF n >= d THEN 0 ELSE 1 + ShiftsUpTo(2 * n, d)

\* the next k base-16 digits of r / d, r < d, and the remainder after them
RECURSIVE QuotDigits(_, _, _)
QuotDigits(r, d, k) ==
    IF k = 0 THEN <<>>
    ELSE <<(16 * r) \div d>> \o QuotDigits((16 * r) % d, d, k - 1)

RECURSIVE QuotRem(_, _, _)
QuotRem(r, d, k) == IF k = 0 THEN r ELSE QuotRem((16 * r) % d, d, k - 1)

\* n / d for ints n, d > 0 (true division, correctly rounded)
TrueDiv(n, d) ==
    LET lift == IF n >= d THEN ShiftsBelow(d, n) ELSE 0
        drop == IF n >= d THEN 0 ELSE ShiftsUpTo(n, d)
        num  == n * Pow2(drop)
        den  == d * Pow2(lift)
        rem  == QuotRem(num - den, den, (significand_bits - 1) \div 4)
        half == 2 * rem >= den
        rest == IF half THEN 2 * rem - den ELSE 2 * rem
    IN  RoundNearestEven(
            BitsOf(<<1>> \o QuotDigits(num - den, den, (significand_bits - 1) \div 4)),
            half, rest # 0, (lift - drop) - (significand_bits - 1))

\* ds * n + carry in base-16 digits
RECURSIVE MulDigits(_, _, _)
MulDigits(ds, n, carry) ==
    IF ds = <<>> THEN HexOf(IntBits(carry))
    ELSE MulDigits(SubSeq(ds, 1, Len(ds) - 1), n,
                   (ds[Len(ds)] * n + carry) \div 16)
            \o <<(ds[Len(ds)] * n + carry) % 16>>

\* bs * n as bits, without rounding
MulBits(bs, n) == BitsOf(MulDigits(HexOf(bs), n, 0))

\* the exact product n * f of an int n > 0 and a float, unrounded
ExactMul(n, f) == [m |-> MulBits(f.m, n), e |-> f.e]

\* n * f as Python computes it
MulInt(n, f) == FromBits(MulBits(f.m, n), f.e)

BitsLess(p, q) ==
    \E i \in 1..Len(p) : p[i] < q[i] /\ \A j \in 1..(i - 1) : p[j] = q[j]

\* f < g for floats
Less(f, g) == f.e < g.e \/ (f.e = g.e /\ BitsLess(f.m, g.m))

\* min(f, g)
Min(f, g) == IF Less(g, f) THEN g ELSE f

\* lines 155-156: scale = min(max_w / iw, 4000 / ih); iw * scale, ih * scale
SectionSize(iw, ih, max_w) ==
    LET scale == Min(TrueDiv(max_w, iw), TrueDiv(4000, ih))
    IN  [w |-> MulInt(iw, scale), h |-> MulInt(ih, scale)]

\* lines 75-76: scale = min(70 / ih, 2000 / iw); iw * scale, ih * scale
LogoSize(iw, ih) ==
    LET scale == Min(TrueDiv(70, ih), TrueDiv(2000, iw))
    IN  [w |-> MulInt(iw, scale), h |-> MulInt(ih, scale)]

\* intrinsic image dimensions in pixels
FitDims == {1, 2, 3, 5, 7, 15, 29, 49, 70, 100, 640, 2000, 4000, 8000}

\* column widths in points
FitWidths == {54, 76, 120, 252, 1600}

InitFit ==
    /\ InitPosterOff /\ WrapOff /\ TitleOff /\ ImagesOff
    /\ fpc = "call"
    /\ fit_image \in {<<iw, ih>> : iw \in FitDims, ih \in FitDims}
    /\ fit_area_w \in FitWidths
    /\ section_fit = <<>>
    /\ logo_fit = <<>>

Fit ==
    /\ fpc = "call"
    /\ section_fit' = SectionSize(fit_image[1], fit_image[2], fit_area_w)
    /\ logo_fit' = LogoSize(fit_image[1], fit_image[2])
    /\ fpc' = "done"
    /\ UNCHANGED <<fit_image, fit_area_w>>
    /\ UNCHANGED <<poster_vars, wrap_vars, title_vars, images_vars>>

NextFit == Fit

SpecFit == InitFit /\ [][NextFit]_vars

-----------------------------------------------------------------------------
(* The image loop of _draw_section and the logo loop of _draw_title_band on
   lists that hold images that cannot be read or measured *)

MaxImages == 3
logo_gap == 10

\* draw_w = iw * min(70 / ih, 2000 / iw), for a logo whose scaled width is a
\* whole number of points
logo_draw_w(img) ==
    IF 70 * img.iw <= 2000 * img.ih
    THEN (70 * img.iw) \div img.ih
    ELSE 2000

\* the logo loop, lines 69-81: the cursor x and the left edges drawn at
RECURSIVE DrawLogos(_, _, _)
DrawLogos(logos, xx, draws) ==
    IF logos = <<>> THEN [x |-> xx, draws |-> draws]
    ELSE IF ~Measurable(Head(logos)) THEN DrawLogos(Tail(logos), xx, draws)
    ELSE LET x_cursor == xx - logo_draw_w(Head(logos))
         IN  DrawLogos(Tail(logos), x_cursor - logo_gap, Append(draws, x_cursor))

\* a missing file, a zero width, a zero height, and two readable images
ImageKinds ==
    {Image(FALSE, 100, 100, FALSE), Image(TRUE, 0, 100, FALSE),
     Image(TRUE, 100, 0, TRUE), Image(TRUE, 200, 100, TRUE),
     Image(TRUE, 100, 200, FALSE)}

\* an unreadable file, a zero height, and a readable logo
LogoKinds ==
    {Image(FALSE, 140, 70, FALSE), Image(TRUE, 140, 0, FALSE),
     Image(TRUE, 140, 70, FALSE)}

ListsOf(kinds) == UNION {[1..n -> kinds] : n \in 0..MaxImages}

InitImages ==
    /\ InitPosterOff /\ WrapOff /\ TitleOff /\ FitOff
    /\ ipc = "images"
    /\ image_list \in ListsOf(ImageKinds)
    /\ logo_list \in ListsOf(LogoKinds)
    /\ image_y \in {100, 400}
    /\ image_area_w = 120
    /\ section_result = <<>>
    /\ logo_result = <<>>

\* lines 144-168, over a column area whose bottom is at 0
SectionImages ==
    /\ ipc = "images"
    /\ section_result' = DrawImages(image_list, image_y, <<>>, 0, image_area_w)
    /\ ipc' = "logos"
    /\ UNCHANGED <<image_list, logo_list, image_y, image_area_w, logo_result>>
    /\ UNCHANGED <<poster_vars, wrap_vars, title_vars, fit_vars>>

\* lines 69-81, from a right edge at x = 1000
TitleLogos ==
    /\ ipc = "logos"
    /\ logo_result' = DrawLogos(logo_list, 1000, <<>>)
    /\ ipc' = "done"
    /\ UNCHANGED <<image_list, logo_list, image_y, image_area_w, section_result>>
    /\ UNCHANGED <<poster_vars, wrap_vars, title_vars, fit_vars>>

NextImages ==
    \/ SectionImages
    \/ TitleLogos

SpecImages == InitImages /\ [][NextImages]_vars

-----------------------------------------------------------------------------
(* Properties of build_poster and _draw_section *)

Started == pc \notin {"off", "begin"}

\* the indices in calls of the _draw_section calls made for section s
CallsOf(s) == {i \in 1..Len(calls) : calls[i].sec = s}
NumCalls(s) == Cardinality(CallsOf(s))
FirstCall(s) == calls[CHOOSE i \in CallsOf(s) : \A j \in CallsOf(s) : i <= j]
LastCall(s) == calls[CHOOSE i \in CallsOf(s) : \A j \in CallsOf(s) : i >= j]

\* the loop has left section s behind, or is about to
Settled(s) == s < sec_i \/ (s = sec_i /\ pc = "space")

Slack(ya) == ya < bottom(geom) + 60

\* C1: for any section list and any column count >= 1, the column index is in
\* [0, columns) in every state of the section loop, and every section is flowed
\* in a column of that range.
C1_ColumnInRange ==
    Started =>
        /\ 0 <= cur_col /\ cur_col < geom.columns
        /\ \A i \in 1..Len(calls) : 0 <= calls[i].col /\ calls[i].col < geom.columns

\* a section about to be re-flowed in column 0 of a later page, after a section
\* was flowed in the last of several columns
C1_Witness ==
    /\ pc = "reflow" /\ page >= 1 /\ cur_col = 0 /\ geom.columns >= 2
    /\ \E i \in 1..Len(calls) : calls[i].col = geom.columns - 1

\* the last three draw commands are showPage on page pg, then the background
\* and the title band of page pg + 1
EndsWithPageStart(l, pg) ==
    /\ Len(l) >= 3
    /\ SubSeq(l, Len(l) - 2, Len(l)) = <<Cmd("showPage", 0, 0, pg, 0)>> \o PaintPage(pg + 1)

\* C2: in the section loop a new page is started (showPage, then column index
\* 0) if and only if a column advance would take the column index past
\* columns - 1; an advance from any other column starts no page, and nothing
\* else starts a page.
C2_PageIffLastColumn ==
    [][ /\ (pc = "check" /\ pc' = "reflow") =>
             /\ (page' = page + 1) <=> (cur_col + 1 > geom.columns - 1)
             /\ (page' = page + 1) =>
                    /\ cur_col' = 0
                    /\ Len(log') = Len(log) + 3
                    /\ EndsWithPageStart(log', page)
             /\ (page' # page + 1) =>
                    /\ page' = page
                    /\ cur_col' = cur_col + 1
                    /\ log' = log
        /\ (page' # page) => (pc = "check" /\ pc' = "reflow")
        /\ (Len(log') > Len(log) /\ log'[Len(log')].kind = "titleband" /\ pc # "begin")
               => page' = page + 1
      ]_vars

\* a page break has been taken and, on the later page, an advance to the next
\* column of the same page
C2_Witness == pc = "reflow" /\ page >= 1 /\ cur_col >= 1

\* C3: after the first flow of a section the column is advanced if and only if
\* the returned cursor is below area bottom + 60; without an advance the
\* section is flowed once and the position (page, column) stays as it is, so
\* when every first flow returns at or above area bottom + 60 all sections
\* are in column 0 of a single page.
C3_AdvanceIffSlack ==
    Started =>
        /\ \A s \in 1..Len(sections) : Settled(s) =>
              /\ NumCalls(s) = (IF Slack(FirstCall(s).y_after) THEN 2 ELSE 1)
              /\ Slack(FirstCall(s).y_after) <=>
                     <<LastCall(s).page, LastCall(s).col>>
                         # <<FirstCall(s).page, FirstCall(s).col>>
        /\ pc = "reflow" => Slack(y_after)
        /\ (\A s \in 1..Len(sections) :
                NumCalls(s) >= 1 => ~Slack(FirstCall(s).y_after)) =>
              /\ cur_col = 0 /\ page = 0
              /\ \A i \in 1..Len(calls) : calls[i].col = 0 /\ calls[i].page = 0
              /\ \A s \in 1..Len(sections) : NumCalls(s) <= 1
              /\ \A i \in 1..Len(log) : log[i].kind # "showPage"

\* a finished render of two sections, both flowed once, in column 0 of page 0
C3_Witness ==
    /\ pc = "done" /\ Len(sections) = 2 /\ Len(calls) = 2
    /\ \A i \in 1..Len(calls) : ~Slack(calls[i].y_after) /\ calls[i].col = 0
    /\ page = 0 /\ cur_col = 0

\* C4: every section is flowed at most twice; a second flow is made only
\* after a first that did not fit, directly after it, from the top of the next
\* column or of column 0 of the next page; whatever the second flow returns,
\* the next flow is the next section's, in the same column of the same page.
C4_AtMostOneRetry ==
    Started =>
        /\ \A s \in 1..Len(sections) : NumCalls(s) <= 2
        /\ \A i \in 1..(Len(calls) - 1) :
              IF calls[i + 1].sec = calls[i].sec
              THEN /\ Slack(calls[i].y_after)
                   /\ calls[i + 1].start_y = geom.H - geom.titleband - geom.margin
                   /\ \/ calls[i + 1].page = calls[i].page
                         /\ calls[i + 1].col = calls[i].col + 1
                      \/ calls[i + 1].page = calls[i].page + 1
                         /\ calls[i + 1].col = 0
                         /\ calls[i].col = geom.columns - 1
                   /\ (i > 1 => calls[i - 1].sec # calls[i].sec)
              ELSE /\ calls[i + 1].sec = calls[i].sec + 1
                   /\ ~Slack(calls[i].y_after) \/ (i > 1 /\ calls[i - 1].sec = calls[i].sec)
                   /\ calls[i + 1].page = calls[i].page
                   /\ calls[i + 1].col = calls[i].col
                   /\ calls[i + 1].start_y = calls[i].y_after - 18

\* a section whose second flow did not fit either, followed by the next
\* section in the same column
C4_Witness ==
    \E i \in 1..(Len(calls) - 2) :
        /\ calls[i].sec = calls[i + 1].sec
        /\ Slack(calls[i + 1].y_after)
        /\ calls[i + 2].sec = calls[i].sec + 1
        /\ calls[i + 2].col = calls[i + 1].col

\* C5: every body line, bullet marker and bullet text line (and every image
\* and caption) is drawn with the cursor at or above the area bottom: once the
\* cursor is below it, _draw_section draws nothing more.
C5_NoLineBelowBottom ==
    \A i \in 1..Len(log) :
        log[i].kind \in {"body", "marker", "bullet", "image", "caption"}
            => log[i].y >= bottom(geom)

\* a flow stopped in the body loop and a flow stopped in the bullet loop, with
\* a line drawn less than one line height above the area bottom
C5_Witness ==
    /\ \E i \in 1..Len(calls) : calls[i].ret = 119
    /\ \E i \in 1..Len(calls) : calls[i].ret \in {132, 139}
    /\ \E i \in 1..Len(log) :
          /\ log[i].kind \in {"body", "bullet"}
          /\ log[i].y < bottom(geom) + line_height

\* C6: whenever _draw_section returns early (in the body, bullet or image
\* step), the cursor it returns is below area bottom + 60.
C6_StoppedReturnsInSlack ==
    \A i \in 1..Len(calls) : calls[i].ret # 168 => Slack(calls[i].y_after)

\* the sections that own a draw command
Drawn == {log[i].sec : i \in 1..Len(log)} \ {0}

\* C7: the draw commands of the sections follow the list order: a command of
\* a later section never precedes a command of an earlier one, the sections
\* drawn so far are 1..k with none skipped, and at the end every section has
\* been drawn.
C7_ListOrder ==
    /\ \A i, j \in 1..Len(log) :
          (i < j /\ log[i].sec # 0 /\ log[j].sec # 0) => log[i].sec <= log[j].sec
    /\ \A s \in Drawn : \A r \in 1..s : r \in Drawn
    /\ \A i \in 1..Len(calls) : calls[i].sec \in 1..Len(sections)
    /\ pc \in {"footer", "done"} => Drawn = 1..Len(sections)

\* a finished render of three sections, the second of them re-flowed
C7_Witness ==
    /\ pc = "done" /\ Len(sections) = 3
    /\ NumCalls(2) = 2 /\ NumCalls(3) >= 1

\* the positions in the log of the commands of kind k
Of(k) == {i \in 1..Len(log) : log[i].kind = k}

\* the wrapped body of section s and the wrapped text of its bullet b
BodyLinesOf(s) == split_text_to_lines(sections[s].body, body_size, 1000 * col_w(geom))
BulletLinesOf(s, b) ==
    split_text_to_lines(sections[s].bullets[b], body_size,
                        1000 * col_w(geom) - bullet_indent_milli)

RECURSIVE SumLen(_)
SumLen(seqs) == IF seqs = <<>> THEN 0 ELSE Len(Head(seqs)) + SumLen(Tail(seqs))

\* what a complete flow of section s draws: its non-empty body lines, one
\* marker per bullet and every wrapped line of every bullet
NeededOf(s, k) ==
    CASE k = "body" ->
            Cardinality({i \in 1..Len(BodyLinesOf(s)) : BodyLinesOf(s)[i] # <<>>})
      [] k = "marker" -> Len(sections[s].bullets)
      [] k = "bullet" ->
            SumLen([b \in 1..Len(sections[s].bullets) |-> BulletLinesOf(s, b)])

\* the commands of kind k that the flow c of section s issued (the two flows
\* of a section are in different columns or on different pages)
DrawnBy(c, k) ==
    Cardinality({i \in 1..Len(log) :
        /\ log[i].sec = c.sec /\ log[i].kind = k
        /\ log[i].col = c.col /\ log[i].page = c.page})

TextKinds == {"body", "marker", "bullet"}

\* one flow of section s drew every body line and bullet of it
AllDrawn(s) ==
    \E i \in CallsOf(s) : \A k \in TextKinds : DrawnBy(calls[i], k) = NeededOf(s, k)

StoppedInText(c) == c.ret \in {119, 132, 139}

\* C17 as stated: when a section still does not fit after its single re-flow,
\* every body line and bullet of the section is nevertheless drawn at least
\* once in the output (past the lower boundary), none is omitted.
C17_EveryLineDrawn ==
    \A s \in 1..Len(sections) :
        (Settled(s) /\ NumCalls(s) = 2 /\ Slack(LastCall(s).y_after)) => AllDrawn(s)

\* C17 amended: when a section still does not fit after its single re-flow,
\* no body line or bullet of it is drawn past the column's lower boundary
\* (its title is drawn at the starting cursor wherever that is); every body
\* line and bullet is drawn at least once if one of its flows ran through the
\* body and bullet loops, and a flow that returned early from them drew no
\* more than the lines it reached and no image or caption after them, the
\* rest being omitted.
C17_DrawnUnlessStopped ==
    \A s \in 1..Len(sections) : Settled(s) =>
        /\ (\E i \in CallsOf(s) : ~StoppedInText(calls[i])) => AllDrawn(s)
        /\ \A i \in CallsOf(s) :
              /\ \A k \in TextKinds : DrawnBy(calls[i], k) <= NeededOf(s, k)
              /\ StoppedInText(calls[i]) =>
                    /\ DrawnBy(calls[i], "image") = 0
                    /\ DrawnBy(calls[i], "caption") = 0
                    /\ calls[i].y_after < bottom(geom)
              /\ calls[i].ret = 119 =>
                    DrawnBy(calls[i], "marker") = 0 /\ DrawnBy(calls[i], "bullet") = 0
        /\ \A i \in 1..Len(log) :
              (log[i].sec = s /\ log[i].kind \in TextKinds) => log[i].y >= bottom(geom)

\* a section flowed twice, stopped in its body both times, with lines that no
\* flow drew
C17_Witness ==
    \E s \in 1..Len(sections) :
        /\ Settled(s) /\ NumCalls(s) = 2
        /\ \A i \in CallsOf(s) : calls[i].ret = 119
        /\ ~AllDrawn(s)
        /\ DrawnBy(LastCall(s), "body") >= 1

\* C18: at every call of _draw_section made by build_poster the starting
\* cursor is at or above the area bottom, so no section title is drawn below
\* the column's bottom boundary.
C18_StartAboveBottom ==
    /\ \A i \in 1..Len(calls) : calls[i].start_y >= bottom(geom)
    /\ \A i \in Of("title") : log[i].y >= bottom(geom)

SectionKindsOfCmd == {"title", "body", "marker", "bullet", "image", "caption"}

\* a configuration error: no title, no column, or a column width of 0 or less
ConfigError ==
    \/ ~has_title
    \/ geom.columns = 0
    \/ geom.columns > 0 /\ col_w(geom) <= 0

\* C14: a configuration error makes build_poster fail before any draw command
\* has been issued, and no section is flowed with a column width <= 0.
C14_FailsBeforeDrawing ==
    (ConfigError /\ pc # "begin") => (pc = "error" /\ log = <<>> /\ calls = <<>>)

\* C15: on every page the background and then the title band are painted
\* before any section content of that page, and every page started by a page
\* break receives a section draw command right after them: no two showPage
\* without section draws between, no page left without content.
C15_PagePaintedThenFilled ==
    Started =>
        /\ Len(log) >= 2 /\ SubSeq(log, 1, 2) = PaintPage(0)
        /\ \A i \in Of("showPage") :
              /\ Len(log) >= i + 2
              /\ log[i].page + 1 <= page
              /\ log[i + 1] = Cmd("background", 0, 0, log[i].page + 1, 0)
              /\ log[i + 2] = Cmd("titleband", 0, 0, log[i].page + 1, 0)
              /\ (pc # "reflow" \/ i + 2 < Len(log)) =>
                    /\ Len(log) >= i + 3
                    /\ log[i + 3].kind \in SectionKindsOfCmd
                    /\ log[i + 3].page = log[i].page + 1
        /\ \A i \in 1..Len(log) :
              log[i].kind \in SectionKindsOfCmd =>
                  \E b \in Of("background") :
                      /\ b + 1 < i
                      /\ log[b].page = log[i].page
                      /\ log[b + 1] = Cmd("titleband", 0, 0, log[i].page, 0)
        /\ \A i \in Of("background") : i = 1 \/ log[i - 1].kind = "showPage"
        /\ \A i \in Of("titleband") : log[i - 1].kind = "background"
        /\ pc = "done" => \A p \in 1..page : \E i \in 1..Len(log) :
              log[i].kind \in SectionKindsOfCmd /\ log[i].page = p

\* a finished render of three pages
C15_Witness == pc = "done" /\ page >= 2 /\ Cardinality(Of("showPage")) >= 2

\* C16: a footer that is present is drawn exactly once per render, as the last
\* draw command, after the last section's draws and the last page break, on the
\* last page; when no footer is present no footer draw is issued.
C16_FooterOnceAtEnd ==
    /\ Cardinality(Of("footer")) = (IF pc = "done" /\ footer THEN 1 ELSE 0)
    /\ \A i \in Of("footer") :
          /\ i = Len(log)
          /\ log[i].page = page
          /\ \A j \in 1..Len(log) : log[j].page <= log[i].page
          /\ \A s \in 1..Len(sections) : NumCalls(s) >= 1

\* a finished render with a footer on the second or a later page
C16_Witness ==
    /\ pc = "done" /\ footer /\ page >= 1 /\ Len(sections) >= 2
    /\ log[Len(log)].kind = "footer"

\* lexicographic order of positions (page, column)
NotBefore(c1, c2) == c1.page < c2.page \/ (c1.page = c2.page /\ c1.col <= c2.col)

\* the column advances taken so far: the second flows made, and the one that
\* is about to be made
Advances ==
    Cardinality({i \in 2..Len(calls) : calls[i].sec = calls[i - 1].sec})
        + (IF pc = "reflow" THEN 1 ELSE 0)

\* C20: the position (page, column) never moves backwards, each section
\* causes at most one column advance, a render of N sections with C columns
\* has at most 1 + floor(N / C) pages, and the pages are one more than the
\* page breaks taken in the section loop.
C20_PagesBounded ==
    Started =>
        /\ \A i \in 1..(Len(calls) - 1) : NotBefore(calls[i], calls[i + 1])
        /\ \A i \in 1..Len(calls) : NotBefore(calls[i], [page |-> page, col |-> cur_col])
        /\ \A s \in 1..Len(sections) : NumCalls(s) <= 2
        /\ Advances <= Len(sections)
        /\ page * geom.columns + cur_col = Advances
        /\ page + 1 <= 1 + (Len(sections) \div geom.columns)
        /\ Cardinality(Of("showPage")) = page
        /\ Cardinality(Of("background")) = page + 1

\* a finished render that reached the bound with more than one page and more
\* than one column
C20_Witness ==
    /\ pc = "done" /\ geom.columns >= 2 /\ page >= 1
    /\ page = Len(sections) \div geom.columns

-----------------------------------------------------------------------------
(* Properties of _split_text_to_lines *)

IsSingleWord(l) == l # <<>> /\ \A i \in 1..Len(l) : ~IsSpace(l[i])

\* a line is within the width, or is one word that alone exceeds it
LineWithin(l, font_size, maxw) ==
    \/ stringWidth(l, font_size) <= maxw
    \/ IsSingleWord(l) /\ stringWidth(l, font_size) > maxw

\* C8 as stated: for every text and every maxWidth, every returned line has
\* measured width <= maxWidth, except a line that is a single word wider than
\* maxWidth.
C8_EveryWidth ==
    wpc = "done" => \A i \in 1..Len(lines) : LineWithin(lines[i], body_size, max_width)

\* C8 amended: for every text and every maxWidth >= 0, every returned line has
\* measured width <= maxWidth, except a line that is a single word wider than
\* maxWidth.
C8_LinesWithinWidth ==
    (wpc = "done" /\ max_width >= 0) =>
        \A i \in 1..Len(lines) : LineWithin(lines[i], body_size, max_width)

\* a run that returned a two-word line within the width and an over-wide word
C8_Witness ==
    /\ wpc = "done"
    /\ max_width >= 0
    /\ \E i \in 1..Len(lines) :
          ~IsSingleWord(lines[i]) /\ lines[i] # <<>>
          /\ stringWidth(lines[i], body_size) <= max_width
    /\ \E i \in 1..Len(lines) :
          IsSingleWord(lines[i]) /\ stringWidth(lines[i], body_size) > max_width

\* whitespace normalisation of one paragraph, written from its meaning: no
\* leading or trailing blank, every run of blanks one blank
RECURSIVE Collapse(_, _)
Collapse(s, pending) ==
    IF s = <<>> THEN <<>>
    ELSE IF s[1] = " " THEN Collapse(Tail(s), TRUE)
    ELSE (IF pending THEN <<" ">> ELSE <<>>) \o <<s[1]>> \o Collapse(Tail(s), FALSE)

RECURSIVE DropLeadingBlanks(_)
DropLeadingBlanks(s) ==
    IF s # <<>> /\ s[1] = " " THEN DropLeadingBlanks(Tail(s)) ELSE s

NormalizedParagraphs(t) ==
    LET ps == SplitNewline(t)
    IN  [i \in 1..Len(ps) |-> Collapse(DropLeadingBlanks(ps[i]), FALSE)]

\* ls splits into consecutive non-empty groups, one per paragraph, and each
\* group joined with single blanks is that paragraph
RECURSIVE Rebuilds(_, _)
Rebuilds(ls, nps) ==
    IF nps = <<>> THEN ls = <<>>
    ELSE \E k \in 1..Len(ls) :
            /\ Join(SubSeq(ls, 1, k)) = Head(nps)
            /\ Rebuilds(SubSeq(ls, k + 1, Len(ls)), Tail(nps))

\* C9: joining each paragraph's lines with single spaces, paragraphs kept in
\* input order, reconstructs exactly the whitespace-normalized input text.
C9_RoundTrip ==
    wpc = "done" => Rebuilds(lines, NormalizedParagraphs(text))

CountEmpty(ls) == Cardinality({i \in 1..Len(ls) : ls[i] = <<>>})

\* C10: a paragraph that is exactly one word wider than maxWidth yields exactly
\* one line, that word; and there is exactly one empty line per empty
\* paragraph and no other empty line.
C10_WideWordAlone ==
    wpc = "done" =>
        LET ps == Paragraphs(text)
        IN  /\ (Len(ps) = 1 /\ IsSingleWord(ps[1])
                 /\ stringWidth(ps[1], body_size) > max_width)
                => lines = <<ps[1]>>
            /\ CountEmpty(lines) = CountEmpty(ps)

\* C19: _split_text_to_lines returns at least one line for every text, the
\* empty text and a text of blanks and line breaks included, so the first
\* wrapped line of a bullet exists.
C19_AtLeastOneLine == wpc = "done" => Len(lines) >= 1

\* a text of blanks and line breaks only, wrapped
C19_Witness ==
    /\ wpc = "done" /\ Len(text) >= 2 /\ Len(lines) >= 1
    /\ \A i \in 1..Len(text) : IsSpace(text[i])
    /\ \E i \in 1..Len(text) : text[i] = " "

-----------------------------------------------------------------------------
(* Claims about the title shrink loop, checked under SpecTitle *)

TitleSizes == {n \in min_font_size..start_font_size : (start_font_size - n) % font_step = 0}

TitleFits(n) == titleWidth(title, n) <= max_title_width

\* C11: the chosen title size is the largest of 72, 70, ..., 36 at which the
\* title's width is at most the usable width, or 36 when it fits at none; the
\* loop makes at most 18 decrements and the size stays within 36..72.
C11_LargestFittingSize ==
    /\ tpc # "off" =>
          /\ title_font_size \in TitleSizes
          /\ shrinks <= (start_font_size - min_font_size) \div font_step
          /\ shrinks * font_step = start_font_size - title_font_size
    /\ tpc = "done" =>
          /\ \A n \in TitleSizes : n > title_font_size => ~TitleFits(n)
          /\ TitleFits(title_font_size) \/ title_font_size = min_font_size
          /\ (\A n \in TitleSizes : ~TitleFits(n)) => title_font_size = min_font_size

\* a title that fits at a size strictly between 36 and 72 and at none above
C11_Witness ==
    /\ tpc = "done"
    /\ title_font_size > min_font_size
    /\ title_font_size < start_font_size
    /\ TitleFits(title_font_size)
    /\ shrinks > 0

-----------------------------------------------------------------------------
(* Claims about the fitting arithmetic, checked under SpecFit *)

\* f <= n for a float f and an int n > 0
LeqInt(f, n) == ~Less(FromInt(n), f)

\* an unrounded product without its trailing zero bits
Reduced(v) ==
    LET last == CHOOSE i \in 1..Len(v.m) :
                    v.m[i] = 1 /\ \A j \in (i + 1)..Len(v.m) : v.m[j] = 0
    IN  [m |-> SubSeq(v.m, 1, last), e |-> v.e + (Len(v.m) - last)]

\* draw_w * ih = draw_h * iw, exactly
SameRatio(size, iw, ih) == Reduced(ExactMul(ih, size.w)) = Reduced(ExactMul(iw, size.h))

\* C12: for positive iw and ih a section image is drawn with draw_w <= area_w
\* and draw_h <= 4000, a logo with draw_h <= 70 and draw_w <= 2000, and in
\* both cases draw_w * ih = draw_h * iw.
C12_FitWithinBounds ==
    fpc = "done" =>
        /\ LeqInt(section_fit.w, fit_area_w)
        /\ LeqInt(section_fit.h, 4000)
        /\ LeqInt(logo_fit.h, 70)
        /\ LeqInt(logo_fit.w, 2000)
        /\ SameRatio(section_fit, fit_image[1], fit_image[2])
        /\ SameRatio(logo_fit, fit_image[1], fit_image[2])

-----------------------------------------------------------------------------
(* Claims about unreadable images, checked under SpecImages *)

\* C13: an image or logo that is missing, unreadable or of a zero dimension is
\* skipped: nothing is drawn for it, the cursor (y for images, x for logos) is
\* where it would be without it, every later image or logo is still
\* processed, and the loop ends normally.
C13_BadImagesSkipped ==
    /\ ipc \in {"logos", "done"} =>
          LET without == DrawImages(SelectSeq(image_list, Measurable), image_y, <<>>,
                                    0, image_area_w)
          IN  /\ section_result.y = without.y
              /\ section_result.draws = without.draws
              /\ section_result.ret \in {0, 146, 158}
    /\ ipc = "done" =>
          /\ logo_result = DrawLogos(SelectSeq(logo_list, Measurable), 1000, <<>>)
          /\ Len(logo_result.draws) = Len(SelectSeq(logo_list, Measurable))

\* an image and a logo drawn after one that could not be measured
C13_Witness ==
    /\ ipc = "done"
    /\ Len(image_list) >= 2
    /\ ~Measurable(image_list[1])
    /\ Measurable(image_list[2])
    /\ section_result.draws # <<>>
    /\ Len(logo_list) >= 2
    /\ ~Measurable(logo_list[1])
    /\ Measurable(logo_list[2])
    /\ logo_result.draws # <<>>

====
